---- MODULE Spec2Model ----
(***************************************************************************)
(* A model of enscons' packaging helpers:                                  *)
(*   util.py     requires_to_requires_dist, generate_requirements          *)
(*   helpers.py  recursiveGlob, prolog                                     *)
(*                                                                         *)
(* Text is modelled structurally.  Where the characters matter (sorting,   *)
(* trimming) a string is a sequence of one-character strings; where only   *)
(* the structure matters (requirement markers) it is a sequence of tokens. *)
(* An optional value (Python None or a value) is a sequence of length 0    *)
(* or 1.                                                                   *)
(***************************************************************************)
EXTENDS Integers, Sequences, FiniteSets, TLC

VARIABLES
    requirement,    \* requires_to_requires_dist: the argument (url, specs)
    rendered,       \* requires_to_requires_dist: optional return value
    earlier,        \* the return value for an earlier ordering of the same specs
    extras_require, \* generate_requirements: the mapping, as its items() in order
    gpc,            \* generate_requirements: where the generator stands
    ei,             \* index of the current (extra, depends) item
    di,             \* index of the next dependency of the current item
    extra,          \* the local variable extra
    condition,      \* the local variable condition
    received,       \* the records the consumer has been handed so far
    dirs,           \* recursiveGlob: the directory tree at root
    pattern,        \* recursiveGlob: the argument pattern
    ignoreNames,    \* recursiveGlob: the argument ignoreNames
    expectFile,     \* recursiveGlob: the argument expectFile
    res,            \* recursiveGlob: optional return value
    versionTxt,     \* prolog: the contents of VERSION.txt, None without the file
    environ,        \* prolog: os.environ
    prologArgs,     \* prolog: the arguments
    buildDir,       \* prolog: the directory #build exists
    pyproject,      \* prolog: pyproject.toml can be read
    ppc,            \* prolog: where the call stands
    returned,       \* prolog: metadata["version"], version_file, WHEEL_TARGET
    textfile        \* prolog: the target env.Textfile declared

rvars == <<requirement, rendered, earlier>>
gvars == <<extras_require, gpc, ei, di, extra, condition, received>>
lvars == <<dirs, pattern, ignoreNames, expectFile, res>>
pvars == <<versionTxt, environ, prologArgs, buildDir, pyproject, ppc, returned, textfile>>
vars == <<rvars, gvars, lvars, pvars>>

None == <<>>
Some(v) == <<v>>

(***************************************************************************)
(* Python strings as sequences of characters                               *)
(***************************************************************************)

\* ord(c) for the characters the model uses (ASCII)
Ord(c) ==
    CASE c = "\n" -> 10
      [] c = " " -> 32
      [] c = "(" -> 40
      [] c = ")" -> 41
      [] c = "," -> 44
      [] c = "." -> 46
      [] c = "0" -> 48
      [] c = "1" -> 49
      [] c = "2" -> 50
      [] c = "9" -> 57
      [] c = "<" -> 60
      [] c = "=" -> 61
      [] c = ">" -> 62
      [] c = "@" -> 64
      [] c = "h" -> 104
      [] c = "u" -> 117
      [] OTHER -> 127

Min(a, b) == IF a < b THEN a ELSE b

\* Python's str.__lt__: the first differing character decides, else the length
StrLess(s, t) ==
    LET n == Min(Len(s), Len(t))
        diff == {k \in 1..n : s[k] # t[k]}
    IN  IF diff = {}
        THEN Len(s) < Len(t)
        ELSE LET k == CHOOSE x \in diff : \A y \in diff : x <= y
             IN  Ord(s[k]) < Ord(t[k])

\* insert x into the sorted list xs, after the elements that are not greater
RECURSIVE Insert(_, _)
Insert(x, xs) ==
    IF xs = <<>> THEN <<x>>
    ELSE IF StrLess(x, Head(xs)) THEN <<x>> \o xs
    ELSE <<Head(xs)>> \o Insert(x, Tail(xs))

\* sorted(xs): a stable sort by string order
RECURSIVE sorted(_)
sorted(xs) ==
    IF xs = <<>> THEN <<>>
    ELSE Insert(xs[Len(xs)], sorted(SubSeq(xs, 1, Len(xs) - 1)))

\* sep.join(xs)
RECURSIVE join(_, _)
join(sep, xs) ==
    IF xs = <<>> THEN <<>>
    ELSE IF Len(xs) = 1 THEN xs[1]
    ELSE xs[1] \o sep \o join(sep, Tail(xs))

\* Python truthiness of an optional string: None and "" are false
Truthy(opt) == opt # None /\ opt[1] # <<>>

(***************************************************************************)
(* util.py: requires_to_requires_dist                                      *)
(***************************************************************************)

\* requirement.specs rendered as op + ver, in the order of the list
SpecTokens(specs) == [k \in 1..Len(specs) |-> specs[k][1] \o specs[k][2]]

\* a slip: the tokens are joined in the order of requirement.specs
requires_to_requires_dist_unsorted(req) ==
    IF Truthy(req.url)
    THEN <<" ", "@", " ">> \o req.url[1]
    ELSE LET requires_dist == SpecTokens(req.specs)
         IN  IF requires_dist = <<>>
             THEN <<>>
             ELSE <<" ", "(">> \o join(<<",">>, requires_dist) \o <<")">>

\* a slip: the URL is prepended instead of returned
requires_to_requires_dist_both(req) ==
    LET requires_dist == SpecTokens(req.specs)
        head == IF Truthy(req.url) THEN <<" ", "@", " ">> \o req.url[1] ELSE <<>>
    IN  IF requires_dist = <<>>
        THEN head
        ELSE head \o <<" ", "(">> \o join(<<",">>, sorted(requires_dist)) \o <<")">>

requires_to_requires_dist(req) ==
    IF Truthy(req.url)
    THEN <<" ", "@", " ">> \o req.url[1]
    ELSE LET requires_dist == SpecTokens(req.specs)
         IN  IF requires_dist = <<>>
             THEN <<>>
             ELSE <<" ", "(">> \o join(<<",">>, sorted(requires_dist)) \o <<")">>

\* ---- inputs ----
MaxSpecs == 3

Operators == {<<"<">>, <<">", "=">>, <<"=", "=">>}
Versions == {<<"1", ".", "0">>, <<"2", ".", "0">>, <<"1">>}
SpecPairs == Operators \X Versions
SpecLists == UNION {[1..n -> SpecPairs] : n \in 0..MaxSpecs}
Urls == {None, Some(<<>>), Some(<<"h", "u">>)}

Orderings(n) == {p \in [1..n -> 1..n] : \A a, b \in 1..n : p[a] = p[b] => a = b}

\* requires_to_requires_dist is not in use
RenderIdle ==
    /\ requirement = [url |-> None, specs |-> <<>>]
    /\ rendered = None
    /\ earlier = None

\* generate_requirements is not running
GenIdle ==
    /\ extras_require = <<>>
    /\ gpc = "idle"
    /\ ei = 0
    /\ di = 0
    /\ extra = <<>>
    /\ condition = <<>>
    /\ received = <<>>

\* recursiveGlob is not in use
GlobIdle ==
    /\ dirs = <<>>
    /\ pattern = ""
    /\ ignoreNames = None
    /\ expectFile = [kind |-> "none", names |-> <<>>]
    /\ res = None

NotReturned == [version |-> <<>>, version_file |-> <<>>, wheel_target |-> ""]

\* prolog is not in use
PrologIdle ==
    /\ versionTxt = None
    /\ environ = <<>>
    /\ prologArgs = <<>>
    /\ buildDir = FALSE
    /\ pyproject = FALSE
    /\ ppc = "idle"
    /\ returned = NotReturned
    /\ textfile = None

RenderInit ==
    /\ requirement \in [url : Urls, specs : SpecLists]
    /\ rendered = None
    /\ earlier = None
    /\ GenIdle
    /\ GlobIdle
    /\ PrologIdle

\* a call of requires_to_requires_dist(requirement)
Render ==
    /\ rendered = None
    /\ rendered' = Some(requires_to_requires_dist(requirement))
    /\ UNCHANGED <<requirement, earlier, gvars, lvars, pvars>>

\* the caller presents the same (operator, version) pairs in another order
Reorder ==
    /\ rendered # None
    /\ earlier = None
    /\ \E p \in Orderings(Len(requirement.specs)) :
          requirement' = [requirement EXCEPT
              !.specs = [k \in 1..Len(requirement.specs) |-> requirement.specs[p[k]]]]
    /\ earlier' = rendered
    /\ rendered' = None
    /\ UNCHANGED <<gvars, lvars, pvars>>

RenderNext == Render \/ Reorder

RenderSpec == RenderInit /\ [][RenderNext]_vars

\* ---- properties of requires_to_requires_dist ----

\* s contains sub as a contiguous substring
Contains(s, sub) ==
    \E k \in 0..(Len(s) - Len(sub)) : SubSeq(s, k + 1, k + Len(sub)) = sub

\* the tokens in nondecreasing string order, chosen among all their orderings
InOrder(tokens) ==
    LET n == Len(tokens)
    IN  CHOOSE s \in {[k \in 1..n |-> tokens[p[k]]] : p \in Orderings(n)} :
            \A k \in 1..(n - 1) : ~StrLess(s[k + 1], s[k])

HasUrlPart(s) == Contains(s, <<" ", "@", " ">>)
HasSpecifierPart(s) == Contains(s, <<" ", "(">>) /\ s # <<>> /\ s[Len(s)] = ")"

\* C8: without URL and with at least one specifier, the rendering is " (" + the
\* operator+version tokens in lexicographic order, joined by commas + ")", and a
\* reordering of the same pairs renders to the same string.
C8_OrderIndependent ==
    (rendered # None /\ ~Truthy(requirement.url) /\ requirement.specs # <<>>) =>
        /\ rendered[1] = <<" ", "(">>
                \o join(<<",">>, InOrder(SpecTokens(requirement.specs))) \o <<")">>
        /\ earlier # None => rendered = earlier

\* two specifiers given out of order were rendered, before and after a reordering
C8_Witness ==
    /\ rendered # None /\ earlier # None
    /\ ~Truthy(requirement.url)
    /\ Len(requirement.specs) >= 2
    /\ StrLess(SpecTokens(requirement.specs)[2], SpecTokens(requirement.specs)[1])

\* C9: a non-empty URL renders as " @ " + url with no specifier part, even with
\* specifiers present; no URL and some specifier renders as the parenthesized list
\* only; neither renders as ""; no output has both a URL and a specifier part.
C9_UrlExclusive ==
    rendered # None =>
        /\ Truthy(requirement.url) =>
              /\ rendered[1] = <<" ", "@", " ">> \o requirement.url[1]
              /\ ~HasSpecifierPart(rendered[1])
        /\ (~Truthy(requirement.url) /\ requirement.specs # <<>>) =>
              /\ HasSpecifierPart(rendered[1])
              /\ ~HasUrlPart(rendered[1])
        /\ (~Truthy(requirement.url) /\ requirement.specs = <<>>) =>
              rendered[1] = <<>>
        /\ ~(HasUrlPart(rendered[1]) /\ HasSpecifierPart(rendered[1]))

\* a requirement with both a URL and specifiers was rendered
C9_Witness ==
    /\ rendered # None
    /\ Truthy(requirement.url)
    /\ requirement.specs # <<>>

(***************************************************************************)
(* util.py: generate_requirements                                          *)
(*                                                                         *)
(* Keys, requirement strings and markers are sequences of tokens: a name,  *)
(* a version specifier, ";" and ":" as separators, marker atoms such as    *)
(* os_name=='nt', and the marker structure "(", ")", "and", "or".          *)
(***************************************************************************)

\* the position of the first occurrence of tok in s, 0 when there is none
Find(s, tok) ==
    LET at == {k \in 1..Len(s) : s[k] = tok}
    IN  IF at = {} THEN 0 ELSE CHOOSE k \in at : \A j \in at : k <= j

DistNames == {"six", "tox"}
VersionSpecifiers == {">=1.10"}
MarkerStructure == {"(", ")", "and", "or"}

\* the text before the marker separator, and the marker text after it
ReqHead(dependency) ==
    IF Find(dependency, ";") = 0 THEN dependency
    ELSE SubSeq(dependency, 1, Find(dependency, ";") - 1)
ReqMarkerText(dependency) ==
    IF Find(dependency, ";") = 0 THEN <<>>
    ELSE SubSeq(dependency, Find(dependency, ";") + 1, Len(dependency))

\* a marker expression the packaging grammar accepts: atoms joined by and / or
WellFormedMarker(m) ==
    /\ Len(m) % 2 = 1
    /\ \A k \in 1..Len(m) :
          IF k % 2 = 1 THEN m[k] \notin MarkerStructure \cup {";", ":"}
          ELSE m[k] \in {"and", "or"}

\* a lenient parser: every requirement string is accepted
Parses_lenient(dependency) == TRUE

\* Requirement(dependency) does not raise InvalidRequirement
Parses(dependency) ==
    /\ Len(ReqHead(dependency)) \in {1, 2}
    /\ ReqHead(dependency)[1] \in DistNames
    /\ Len(ReqHead(dependency)) = 2 => ReqHead(dependency)[2] \in VersionSpecifiers
    /\ Find(dependency, ";") # 0 => WellFormedMarker(ReqMarkerText(dependency))

\* str(Marker): one atom in canonical spacing and quoting
CanonAtom(tok) ==
    CASE tok = "os_name=='nt'" -> "os_name == \"nt\""
      [] tok = "python_version<'3'" -> "python_version < \"3\""
      [] tok = "sys_platform=='linux'" -> "sys_platform == \"linux\""
      [] OTHER -> tok

\* str(Marker(text))
MarkerStr(m) == [k \in 1..Len(m) |-> CanonAtom(m[k])]

\* Requirement(dependency): the head and the optional marker object
Requirement(dependency) ==
    [head |-> ReqHead(dependency),
     marker |-> IF ReqMarkerText(dependency) = <<>> THEN None
                ELSE Some(ReqMarkerText(dependency))]

\* "extra == '%s'" % extra
ExtraAtom(e) ==
    CASE e = <<"dev">> -> "extra == 'dev'"
      [] e = <<"doc">> -> "extra == 'doc'"
      [] OTHER -> "extra == '?'"

\* lines 31-33: the extra name, the key split at its first colon (a key is a
\* string here, on which `extra or ""` changes nothing)
SplitExtra(key) ==
    IF Find(key, ":") # 0 THEN SubSeq(key, 1, Find(key, ":") - 1) ELSE key

\* lines 30-39: condition when the dependencies of the item are reached
EntryCondition(key) ==
    LET e == SplitExtra(key)
        c == IF Find(key, ":") # 0
             THEN SubSeq(key, Find(key, ":") + 1, Len(key)) ELSE <<>>
    IN  IF e # <<>>
        THEN (IF c # <<>> THEN <<"(">> \o c \o <<")", "and">> ELSE <<>>)
                 \o <<ExtraAtom(e)>>
        ELSE c

\* a slip: the record is yielded for the base item too
EntryYield_always(e, item) ==
    <<[field |-> "Provides-Extra", value |-> e, item |-> item, dep |-> 0]>>

\* lines 35-36: what the head of an item yields
EntryYield(e, item) ==
    IF e # <<>>
    THEN <<[field |-> "Provides-Extra", value |-> e, item |-> item, dep |-> 0]>>
    ELSE <<>>

\* a slip: the clause replaces the requirement's own marker
RequiresDistValue_replace(dependency, cond) ==
    LET new_req == Requirement(dependency)
        marker == IF cond # <<>> THEN Some(cond)
                  ELSE IF new_req.marker # None THEN Some(MarkerStr(new_req.marker[1]))
                  ELSE None
    IN  new_req.head \o (IF marker # None THEN <<";">> \o marker[1] ELSE <<>>)

\* lines 42-48: str(new_req) after the clause was combined into its marker
RequiresDistValue(dependency, cond) ==
    LET new_req == Requirement(dependency)
        marker ==
            IF cond # <<>>
            THEN IF new_req.marker # None
                 THEN Some(<<"(">> \o MarkerStr(new_req.marker[1]) \o <<")", "and">> \o cond)
                 ELSE Some(cond)
            ELSE IF new_req.marker # None THEN Some(MarkerStr(new_req.marker[1]))
            ELSE None
    IN  new_req.head \o (IF marker # None THEN <<";">> \o marker[1] ELSE <<>>)

\* ---- inputs ----
MaxItems == 2

Linux == "sys_platform=='linux'"
Nt == "os_name=='nt'"

Keys ==
    { <<>>,
      <<"dev">>,
      <<"dev", ":">>,
      <<"dev", ":", Linux, "or", Nt>>,
      <<"doc", ":", Linux>>,
      <<":", Linux, "or", Nt>> }

Six == <<"six", ">=1.10">>
Tox == <<"tox", ";", "python_version<'3'", "or", Nt>>
Bad == <<"tox", ";">>

DependsLists == {<<>>, <<Six>>, <<Tox>>, <<Six, Tox>>, <<Six, Bad>>, <<Bad>>}

\* the items() of a dict: the keys are distinct
Mappings ==
    {m \in UNION {[1..n -> [key : Keys, depends : DependsLists]] : n \in 1..MaxItems} :
        \A a, b \in 1..Len(m) : m[a].key = m[b].key => a = b}

GenInit ==
    /\ extras_require \in Mappings
    /\ gpc = "item"
    /\ ei = 1
    /\ di = 0
    /\ extra = <<>>
    /\ condition = <<>>
    /\ received = <<>>
    /\ RenderIdle
    /\ GlobIdle
    /\ PrologIdle

\* lines 29-39: the next item; its Provides-Extra record is handed over
NextItem ==
    /\ gpc = "item"
    /\ ei <= Len(extras_require)
    /\ extra' = SplitExtra(extras_require[ei].key)
    /\ condition' = EntryCondition(extras_require[ei].key)
    /\ received' = received \o EntryYield(SplitExtra(extras_require[ei].key), ei)
    /\ di' = 1
    /\ gpc' = "dep"
    /\ UNCHANGED <<extras_require, ei, rvars, lvars, pvars>>

\* lines 41-48: the next dependency; it is parsed, and its Requires-Dist record is
\* handed over, or the parse error leaves the generator
NextDependency ==
    /\ gpc = "dep"
    /\ di <= Len(extras_require[ei].depends)
    /\ IF Parses(extras_require[ei].depends[di])
       THEN /\ received' = Append(received,
                   [field |-> "Requires-Dist",
                    value |-> RequiresDistValue(extras_require[ei].depends[di], condition),
                    item |-> ei, dep |-> di])
            /\ di' = di + 1
            /\ gpc' = gpc
       ELSE /\ gpc' = "raised"
            /\ UNCHANGED <<received, di>>
    /\ UNCHANGED <<extras_require, ei, extra, condition, rvars, lvars, pvars>>

\* line 41: the dependencies of the item are exhausted
EndOfItem ==
    /\ gpc = "dep"
    /\ di > Len(extras_require[ei].depends)
    /\ ei' = ei + 1
    /\ gpc' = "item"
    /\ UNCHANGED <<extras_require, di, extra, condition, received, rvars, lvars, pvars>>

\* line 29: the items are exhausted, the generator returns
Return ==
    /\ gpc = "item"
    /\ ei > Len(extras_require)
    /\ gpc' = "done"
    /\ UNCHANGED <<extras_require, ei, di, extra, condition, received, rvars, lvars, pvars>>

GenNext == NextItem \/ NextDependency \/ EndOfItem \/ Return

GenSpec == GenInit /\ [][GenNext]_vars

\* ---- properties of generate_requirements ----

\* the extra name of a key, the text before its first colon (names are one token)
NameOf(key) == IF key = <<>> \/ key[1] = ":" THEN <<>> ELSE <<key[1]>>

\* the condition of a key, the text after its first colon
CondOf(key) ==
    IF key = <<>> THEN <<>>
    ELSE IF key[1] = ":" THEN Tail(key)
    ELSE IF Len(key) >= 2 THEN SubSeq(key, 3, Len(key))
    ELSE <<>>

\* the (item, dependency) positions a complete run hands over, in order, from item i
\* on; dependency 0 stands for the item's Provides-Extra record
RECURSIVE Positions(_, _)
Positions(m, i) ==
    IF i > Len(m) THEN <<>>
    ELSE (IF NameOf(m[i].key) # <<>> THEN << <<i, 0>> >> ELSE <<>>)
             \o [j \in 1..Len(m[i].depends) |-> <<i, j>>]
             \o Positions(m, i + 1)

ReceivedPositions == [k \in 1..Len(received) |-> <<received[k].item, received[k].dep>>]

Count(field) == Cardinality({k \in 1..Len(received) : received[k].field = field})

RECURSIVE TotalDepends(_, _)
TotalDepends(m, i) ==
    IF i > Len(m) THEN 0 ELSE Len(m[i].depends) + TotalDepends(m, i + 1)

NamedItems == {i \in 1..Len(extras_require) : NameOf(extras_require[i].key) # <<>>}

\* position a comes before position b in the order of emission
Before(a, b) == a[1] < b[1] \/ (a[1] = b[1] /\ a[2] < b[2])

\* C2 as stated: when the parse failure is raised, the consumer has received nothing.
C2_NothingBeforeFailure == gpc = "raised" => received = <<>>

\* C2 as amended: a run over a mapping with an unparsable requirement string never
\* completes; it fails at the first such string in emission order, when the consumer
\* has received exactly the records that precede that string, and none for it or
\* after it.
C2_FailsAtFirstUnparsable ==
    /\ gpc = "done" =>
          \A i \in 1..Len(extras_require) :
              \A j \in 1..Len(extras_require[i].depends) :
                  extras_require[i].depends[j] # Bad
    /\ gpc = "raised" =>
          /\ extras_require[ei].depends[di] = Bad
          /\ \A k \in 1..Len(received) :
                received[k].dep > 0 =>
                    extras_require[received[k].item].depends[received[k].dep] # Bad
          /\ LET exp == Positions(extras_require, 1)
                 cut == {k \in 1..Len(exp) : Before(exp[k], <<ei, di>>)}
             IN  ReceivedPositions = SubSeq(exp, 1, Cardinality(cut))

\* the run failed after records had been handed over
C2_Witness == gpc = "raised" /\ Len(received) >= 2

\* the index of the last Provides-Extra record before record k, 0 when there is none
LastProvides(k) ==
    LET at == {p \in 1..(k - 1) : received[p].field = "Provides-Extra"}
    IN  IF at = {} THEN 0 ELSE CHOOSE p \in at : \A q \in at : q <= p

\* C3 as stated: in the output there are as many Provides-Extra records as items
\* with a non-empty extra name, and every record after a Provides-Extra record and
\* before the next one is a Requires-Dist record of that same extra.
C3_RecordsOfSameExtra ==
    gpc = "done" =>
        /\ Count("Provides-Extra") = Cardinality(NamedItems)
        /\ \A k \in 1..Len(received) :
              (received[k].field = "Requires-Dist" /\ LastProvides(k) # 0) =>
                  NameOf(extras_require[received[k].item].key)
                      = received[LastProvides(k)].value

\* C3 as amended: in the output of a completed run there are as many Provides-Extra
\* records as items with a non-empty extra name, and every record after a
\* Provides-Extra record and before the next one is a Requires-Dist record either of
\* that same extra or of a later item whose extra name is empty.
C3_RecordsOfSameExtraOrBase ==
    gpc = "done" =>
        /\ Count("Provides-Extra") = Cardinality(NamedItems)
        /\ \A k \in 1..Len(received) :
              (received[k].field = "Requires-Dist" /\ LastProvides(k) # 0) =>
                  \/ NameOf(extras_require[received[k].item].key)
                         = received[LastProvides(k)].value
                  \/ /\ NameOf(extras_require[received[k].item].key) = <<>>
                     /\ received[k].item > received[LastProvides(k)].item

\* a completed run in which a base requirement followed a named extra's records
C3_Witness ==
    /\ gpc = "done"
    /\ \E k \in 1..Len(received) :
          /\ received[k].field = "Requires-Dist"
          /\ LastProvides(k) # 0
          /\ NameOf(extras_require[received[k].item].key) = <<>>

\* C4: the records are handed over item by item in mapping order, per item the
\* Provides-Extra record first, exactly when the extra name is non-empty, then one
\* Requires-Dist record per requirement string in list order; a completed run has
\* handed over all of them, as many Requires-Dist records as requirement strings.
C4_EmissionOrder ==
    LET exp == Positions(extras_require, 1)
    IN  /\ Len(received) <= Len(exp)
        /\ ReceivedPositions = SubSeq(exp, 1, Len(received))
        /\ \A k \in 1..Len(received) :
              LET item == extras_require[received[k].item]
              IN  IF received[k].dep = 0
                  THEN /\ received[k].field = "Provides-Extra"
                       /\ received[k].value = NameOf(item.key)
                       /\ received[k].value # <<>>
                  ELSE /\ received[k].field = "Requires-Dist"
                       /\ received[k].value[1] = item.depends[received[k].dep][1]
        /\ gpc = "done" =>
              /\ ReceivedPositions = exp
              /\ Count("Requires-Dist") = TotalDepends(extras_require, 1)

\* a completed run over a named item with two requirements followed by a base item
C4_Witness ==
    /\ gpc = "done"
    /\ Len(extras_require) = 2
    /\ NameOf(extras_require[1].key) # <<>>
    /\ Len(extras_require[1].depends) = 2
    /\ NameOf(extras_require[2].key) = <<>>
    /\ Len(extras_require[2].depends) >= 1

\* the clause of an item with extra name n and condition c
ClauseOf(n, c) ==
    IF c = <<>> THEN <<ExtraAtom(n)>>
    ELSE <<"(">> \o c \o <<")", "and", ExtraAtom(n)>>

\* C5: a Requires-Dist record of an item with a non-empty extra name has the marker
\* clause(name, condition) when the requirement has no marker of its own, and
\* "(M) and " + clause when it has the marker M; an item without extra name and
\* condition leaves the requirement's marker as it is, whatever came before it.
C5_MarkerCombination ==
    \A k \in 1..Len(received) :
        received[k].field = "Requires-Dist" =>
            LET key == extras_require[received[k].item].key
                dependency == extras_require[received[k].item].depends[received[k].dep]
                own == MarkerStr(ReqMarkerText(dependency))
            IN  /\ NameOf(key) # <<>> =>
                      received[k].value = ReqHead(dependency) \o <<";">>
                          \o (IF own # <<>> THEN <<"(">> \o own \o <<")", "and">> ELSE <<>>)
                          \o ClauseOf(NameOf(key), CondOf(key))
                /\ (NameOf(key) = <<>> /\ CondOf(key) = <<>>) =>
                      received[k].value = ReqHead(dependency)
                          \o (IF own # <<>> THEN <<";">> \o own ELSE <<>>)

\* a requirement with a marker of its own was emitted under a key 'name:condition',
\* after the records of another item
C5_Witness ==
    \E k \in 1..Len(received) :
        /\ received[k].field = "Requires-Dist"
        /\ received[k].item = 2
        /\ NameOf(extras_require[2].key) # <<>>
        /\ CondOf(extras_require[2].key) # <<>>
        /\ ReqMarkerText(extras_require[2].depends[received[k].dep]) # <<>>

\* ---- the meaning of a marker text ----

\* the nesting depth of parentheses before position k
Depth(m, k) ==
    Cardinality({j \in 1..(k - 1) : m[j] = "("})
        - Cardinality({j \in 1..(k - 1) : m[j] = ")"})

\* the positions of the operator op outside all parentheses
TopLevel(m, op) == {k \in 1..Len(m) : m[k] = op /\ Depth(m, k) = 0}

\* the truth of marker text m where exactly the atoms in env hold: "or" of "and"
\* of atoms and parenthesised markers, as the packaging grammar reads it
RECURSIVE Holds(_, _)
Holds(m, env) ==
    IF TopLevel(m, "or") # {}
    THEN LET k == CHOOSE x \in TopLevel(m, "or") : \A y \in TopLevel(m, "or") : x <= y
         IN  Holds(SubSeq(m, 1, k - 1), env) \/ Holds(SubSeq(m, k + 1, Len(m)), env)
    ELSE IF TopLevel(m, "and") # {}
    THEN LET k == CHOOSE x \in TopLevel(m, "and") : \A y \in TopLevel(m, "and") : x <= y
         IN  Holds(SubSeq(m, 1, k - 1), env) /\ Holds(SubSeq(m, k + 1, Len(m)), env)
    ELSE IF m[1] = "("
    THEN Holds(SubSeq(m, 2, Len(m) - 1), env)
    ELSE CanonAtom(m[1]) \in env

AtomsOf(m) == {CanonAtom(m[k]) : k \in {j \in 1..Len(m) : m[j] \notin MarkerStructure}}

\* marker text m is satisfied only where marker text c is
Implies(m, c) ==
    \A env \in SUBSET (AtomsOf(m) \cup AtomsOf(c)) : Holds(m, env) => Holds(c, env)

\* the operands of the top-level conjunction m
RECURSIVE Conjuncts(_)
Conjuncts(m) ==
    IF TopLevel(m, "and") = {} THEN {m}
    ELSE LET k == CHOOSE x \in TopLevel(m, "and") : \A y \in TopLevel(m, "and") : x <= y
         IN  {SubSeq(m, 1, k - 1)} \cup Conjuncts(SubSeq(m, k + 1, Len(m)))

\* c stands in m as one operand of a top-level conjunction, in parentheses unless
\* it is a single atom, or m is c alone
AppliedAsConjunct(m, c) ==
    \/ m = c
    \/ /\ TopLevel(m, "or") = {}
       /\ \/ <<"(">> \o c \o <<")">> \in Conjuncts(m)
          \/ Len(c) = 1 /\ c \in Conjuncts(m)

\* C10: every Requires-Dist record of an item whose key carries a condition C has a
\* marker that is satisfied only where C is, and C stands in it as a parenthesised
\* (atomic) conjunct, also under an empty extra name and with a marker of the
\* requirement's own.
C10_ConditionIsConjunct ==
    \A k \in 1..Len(received) :
        (received[k].field = "Requires-Dist"
             /\ CondOf(extras_require[received[k].item].key) # <<>>) =>
            LET c == CondOf(extras_require[received[k].item].key)
                m == ReqMarkerText(received[k].value)
            IN  /\ Implies(m, c)
                /\ AppliedAsConjunct(m, c)

(***************************************************************************)
(* helpers.py: recursiveGlob                                               *)
(*                                                                         *)
(* The tree below root is dirs: dirs[1] is root, dirs[d].parent < d is the *)
(* directory holding d, and os.listdir lists the subdirectories of a       *)
(* directory in increasing index.  A file node is <<directory, name>>.     *)
(***************************************************************************)

RECURSIVE Flatten(_)
Flatten(seqs) == IF seqs = <<>> THEN <<>> ELSE Head(seqs) \o Flatten(Tail(seqs))

\* the indexes in set S in increasing order
RECURSIVE Ascending(_)
Ascending(S) ==
    IF S = {} THEN <<>>
    ELSE LET least == CHOOSE x \in S : \A y \in S : x <= y
         IN  <<least>> \o Ascending(S \ {least})

\* oswdirnames of directory d
Subdirs(fs, d) == Ascending({c \in 1..Len(fs) : fs[c].parent = d})

\* os.walk(root), top down: the directory, then the walk of each subdirectory;
\* the loop body never removes a name from oswdirnames
RECURSIVE Walk(_, _)
Walk(fs, d) ==
    <<d>> \o Flatten([k \in 1..Len(Subdirs(fs, d)) |-> Walk(fs, Subdirs(fs, d)[k])])

\* fnmatch of a file name against the pattern
Matches(name, pat) ==
    CASE pat = "*.py" -> name \in {"__init__.py", "a.py"}
      [] pat = "*.txt" -> name \in {"b.txt"}
      [] OTHER -> FALSE

\* the file names in the order Glob returns them (sorted by name)
FileOrder == <<"__init__.py", "a.py", "b.txt">>

\* Glob(os.path.join(directory, pattern))
Glob(fs, d, pat) ==
    LET Hit(name) == name \in fs[d].files /\ Matches(name, pat)
        names == SelectSeq(FileOrder, Hit)
    IN  [k \in 1..Len(names) |-> <<d, names[k]>>]

\* line 77
IgnoreNames(arg) == IF arg = None THEN <<"__pycache__">> ELSE arg[1]

\* line 78
ExpectFile(arg) ==
    IF arg.kind = "none" THEN <<"__init__.py">>
    ELSE IF arg.kind = "str" THEN <<arg.names[1]>>
    ELSE arg.names

InSeq(x, s) == \E k \in 1..Len(s) : s[k] = x

\* a slip: an empty expectFile list excludes every directory
Contribution_strict(fs, c, pat, ignore, expect) ==
    IF InSeq(fs[c].name, ignore) THEN <<>>
    ELSE LET found == \E k \in 1..Len(expect) : expect[k] \in fs[c].files
         IN  IF ~found THEN <<>> ELSE Glob(fs, c, pat)

\* lines 83-90: what one oswdirname adds to res
Contribution(fs, c, pat, ignore, expect) ==
    IF InSeq(fs[c].name, ignore) THEN <<>>
    ELSE LET found == \E k \in 1..Len(expect) : expect[k] \in fs[c].files
         IN  IF (~found) /\ Len(expect) > 0 THEN <<>> ELSE Glob(fs, c, pat)

\* lines 77-91
recursiveGlob(fs, pat, ignoreArg, expectArg) ==
    LET ignore == IgnoreNames(ignoreArg)
        expect == ExpectFile(expectArg)
        walk == Walk(fs, 1)
        PerDirectory(d) ==
            Flatten([k \in 1..Len(Subdirs(fs, d)) |->
                        Contribution(fs, Subdirs(fs, d)[k], pat, ignore, expect)])
    IN  Glob(fs, 1, pat) \o Flatten([k \in 1..Len(walk) |-> PerDirectory(walk[k])])

\* ---- inputs ----
MaxDirs == 3

DirNames == {"__pycache__", "sub"}
FileSets == {{"a.py", "b.txt"}, {"__init__.py", "a.py", "b.txt"}}
Patterns == {"*.py", "*.txt"}
IgnoreArgs == {None, Some(<<>>), Some(<<"sub">>)}
ExpectArgs ==
    { [kind |-> "none", names |-> <<>>],
      [kind |-> "str", names |-> <<"__init__.py">>],
      [kind |-> "list", names |-> <<>>] }

\* the trees with n directories below root: a directory lies in a directory of
\* smaller index, and no two subdirectories of a directory share a name
Trees(n) ==
    {fs \in [1..(n + 1) -> [parent : 0..n, name : DirNames, files : FileSets]] :
        /\ fs[1].parent = 0
        /\ fs[1].name = "sub"
        /\ \A d \in 2..(n + 1) : fs[d].parent \in 1..(d - 1)
        /\ \A c, d \in 2..(n + 1) :
              (fs[c].parent = fs[d].parent /\ fs[c].name = fs[d].name) => c = d}

GlobInit ==
    /\ dirs \in UNION {Trees(n) : n \in 0..MaxDirs}
    /\ pattern \in Patterns
    /\ ignoreNames \in IgnoreArgs
    /\ expectFile \in ExpectArgs
    /\ res = None
    /\ RenderIdle
    /\ GenIdle
    /\ PrologIdle

\* a call recursiveGlob(root, pattern, ignoreNames, expectFile)
CallRecursiveGlob ==
    /\ res = None
    /\ res' = Some(recursiveGlob(dirs, pattern, ignoreNames, expectFile))
    /\ UNCHANGED <<dirs, pattern, ignoreNames, expectFile, rvars, gvars, pvars>>

GlobNext == CallRecursiveGlob

GlobSpec == GlobInit /\ [][GlobNext]_vars

\* ---- properties of recursiveGlob ----

\* d and the directories above it, root excluded
RECURSIVE Lineage(_, _)
Lineage(fs, d) == IF d <= 1 THEN {} ELSE {d} \cup Lineage(fs, fs[d].parent)

Ignored(d) == InSeq(dirs[d].name, IgnoreNames(ignoreNames))
HasExpected(d) ==
    \E k \in 1..Len(ExpectFile(expectFile)) : ExpectFile(expectFile)[k] \in dirs[d].files
MatchesIn(d) == {<<d, name>> : name \in {f \in dirs[d].files : Matches(f, pattern)}}
ResultOf(d) == {k \in 1..Len(res[1]) : res[1][k][1] = d}

\* C1: no file of the result lies in a directory whose name is in ignoreNames, nor
\* in any directory below such a directory.
C1_IgnoredSubtreeExcluded ==
    res # None =>
        \A k \in 1..Len(res[1]) :
            \A a \in Lineage(dirs, res[1][k][1]) : ~Ignored(a)

\* the part of C1 the code keeps: an ignored directory itself contributes nothing
C1_IgnoredDirectoryExcluded ==
    res # None =>
        \A k \in 1..Len(res[1]) : res[1][k][1] # 1 => ~Ignored(res[1][k][1])

\* C6: with a non-empty expectFile a directory below root that is not ignored and
\* holds none of the expected files contributes nothing; a directory below root that
\* is not ignored and holds an expected file, or any that is not ignored when
\* expectFile is empty, contributes each of its matches once, wherever it lies; the
\* matches of root are all in the result and precede all others.
C6_ExpectFileRule ==
    res # None =>
        /\ \A d \in 2..Len(dirs) :
              (Len(ExpectFile(expectFile)) > 0 /\ ~Ignored(d) /\ ~HasExpected(d)) =>
                  ResultOf(d) = {}
        /\ \A d \in 2..Len(dirs) :
              (~Ignored(d) /\ (HasExpected(d) \/ Len(ExpectFile(expectFile)) = 0)) =>
                  /\ {res[1][k] : k \in ResultOf(d)} = MatchesIn(d)
                  /\ Cardinality(ResultOf(d)) = Cardinality(MatchesIn(d))
        /\ {res[1][k] : k \in ResultOf(1)} = MatchesIn(1)
        /\ \A k, l \in 1..Len(res[1]) :
              (res[1][k][1] = 1 /\ res[1][l][1] # 1) => k < l

\* a directory without the expected file contributed nothing while its subdirectory
\* with the expected file contributed; and a call with an empty expectFile list
C6_Witness ==
    /\ res # None
    /\ Len(ExpectFile(expectFile)) > 0
    /\ \E d, c \in 2..Len(dirs) :
          /\ dirs[c].parent = d
          /\ ~Ignored(d) /\ ~HasExpected(d) /\ MatchesIn(d) # {}
          /\ ~Ignored(c) /\ HasExpected(c) /\ ResultOf(c) # {}

\* with an empty expectFile list a directory without __init__.py contributed
C6_WitnessEmpty ==
    /\ res # None
    /\ Len(ExpectFile(expectFile)) = 0
    /\ \E d \in 2..Len(dirs) : "__init__.py" \notin dirs[d].files /\ ResultOf(d) # {}

(***************************************************************************)
(* helpers.py: prolog                                                      *)
(***************************************************************************)

Whitespace == {" ", "\n"}

RECURSIVE lstrip(_)
lstrip(s) == IF s # <<>> /\ Head(s) \in Whitespace THEN lstrip(Tail(s)) ELSE s

RECURSIVE rstrip(_)
rstrip(s) ==
    IF s # <<>> /\ s[Len(s)] \in Whitespace THEN rstrip(SubSeq(s, 1, Len(s) - 1)) ELSE s

\* str.strip()
strip(s) == rstrip(lstrip(s))

\* line 117
default_version == <<"9", "9", ".", "9", "9", ".", "9", "9">>

\* a slip: the contents of the file are taken as they are
ResolveVersion_raw(file, key, env) ==
    IF file # None
    THEN [version |-> file[1], version_file |-> Some(<<"VERSION.txt">>)]
    ELSE [version |-> IF key # None
                      THEN (IF env[key[1]] # None THEN env[key[1]][1] ELSE default_version)
                      ELSE default_version,
          version_file |-> None]

\* lines 113-119: metadata["version"] and version_file; file is the contents of
\* VERSION.txt when os.path.isfile finds it, env is os.environ
ResolveVersion(file, key, env) ==
    IF file # None
    THEN [version |-> strip(file[1]), version_file |-> Some(<<"VERSION.txt">>)]
    ELSE [version |-> IF key # None
                      THEN (IF env[key[1]] # None THEN env[key[1]][1] ELSE default_version)
                      ELSE default_version,
          version_file |-> None]

\* lines 104-105 and 126
WheelTarget(is_binary, wheel_tag) ==
    LET binary == IF is_binary = None THEN wheel_tag # "py3-none-any" ELSE is_binary[1]
    IN  IF binary THEN "platlib" ELSE "purelib"

\* ---- inputs ----
MaxLen == 2

VersionChars == {" ", "\n", "1"}
FileContents == UNION {[1..n -> VersionChars] : n \in 0..MaxLen}
EnvNames == {"PKG_VERSION", "OTHER"}
EnvValues == {None, Some(<<>>), Some(<<"2", ".", "0">>)}
WheelTags == {"py3-none-any", "cp39-abi3-linux_x86_64"}

PrologInit ==
    /\ versionTxt \in {None} \cup {Some(c) : c \in FileContents}
    /\ environ \in [EnvNames -> EnvValues]
    /\ prologArgs \in [os_environ_version_key : {None} \cup {Some(n) : n \in EnvNames},
                       wheel_tag : WheelTags,
                       is_binary : {None, Some(TRUE), Some(FALSE)}]
    /\ buildDir \in BOOLEAN
    /\ pyproject \in BOOLEAN
    /\ ppc = "start"
    /\ returned = NotReturned
    /\ textfile = None
    /\ RenderIdle
    /\ GenIdle
    /\ GlobIdle

\* a call prolog(os_environ_version_key, wheel_tag, is_binary)
Prolog ==
    /\ ppc = "start"
    /\ buildDir' = FALSE
    /\ IF ~pyproject
       THEN \* open("pyproject.toml") raises
            /\ ppc' = "raised"
            /\ UNCHANGED <<returned, textfile>>
       ELSE LET got == ResolveVersion(versionTxt, prologArgs.os_environ_version_key,
                                      environ)
            IN  /\ textfile' = IF got.version_file = None
                               THEN Some([target |-> "VERSION.txt",
                                          content |-> got.version])
                               ELSE None
                /\ returned' =
                       [version |-> got.version,
                        version_file |-> IF got.version_file = None
                                         THEN <<"VERSION.txt">>
                                         ELSE got.version_file[1],
                        wheel_target |-> WheelTarget(prologArgs.is_binary,
                                                     prologArgs.wheel_tag)]
                /\ ppc' = "returned"
    /\ UNCHANGED <<versionTxt, environ, prologArgs, pyproject, rvars, gvars, lvars>>

PrologNext == Prolog

PrologSpec == PrologInit /\ [][PrologNext]_vars

\* ---- properties of prolog ----

\* s without its leading and trailing whitespace: the part from the first to the
\* last character that is not whitespace
Trimmed(s) ==
    LET solid == {k \in 1..Len(s) : s[k] \notin Whitespace}
    IN  IF solid = {} THEN <<>>
        ELSE SubSeq(s, CHOOSE a \in solid : \A b \in solid : a <= b,
                       CHOOSE a \in solid : \A b \in solid : b <= a)

\* C7: with VERSION.txt present the version is its trimmed contents, whatever the
\* environment holds, and no text artifact is generated; without it the version is
\* the value of the named environment variable when one is named and set, else
\* "99.99.99", and a VERSION.txt text artifact holding that version is generated;
\* the returned version_file is never empty.
C7_VersionResolution ==
    ppc = "returned" =>
        /\ versionTxt # None =>
              /\ returned.version = Trimmed(versionTxt[1])
              /\ textfile = None
              /\ returned.version_file = <<"VERSION.txt">>
        /\ versionTxt = None =>
              /\ LET key == prologArgs.os_environ_version_key
                 IN  returned.version =
                         IF key # None /\ environ[key[1]] # None
                         THEN environ[key[1]][1]
                         ELSE default_version
              /\ textfile = Some([target |-> "VERSION.txt", content |-> returned.version])
        /\ returned.version_file # <<>>

\* prolog returned with a VERSION.txt padded with whitespace and the named variable set
C7_Witness ==
    /\ ppc = "returned"
    /\ versionTxt # None
    /\ versionTxt[1] # <<>>
    /\ Trimmed(versionTxt[1]) # versionTxt[1]
    /\ prologArgs.os_environ_version_key # None
    /\ environ[prologArgs.os_environ_version_key[1]] # None

\* prolog returned without VERSION.txt, the named variable unset and another one set
C7_WitnessFallback ==
    /\ ppc = "returned"
    /\ versionTxt = None
    /\ prologArgs.os_environ_version_key = Some("PKG_VERSION")
    /\ environ["PKG_VERSION"] = None
    /\ environ["OTHER"] # None

====
